---- MODULE Spec2Model ----
(***************************************************************************)
(* A model of mcp-fs: the driver's tool-call resolution loop               *)
(* (src/src/client.ts, main), the toolhost's session table and request     *)
(* handler (src/src/server.ts, app.post("/mcp")) and the tools that        *)
(* getServer() registers (src/src/server.ts:26-471).                       *)
(*                                                                         *)
(* Spec         the driver: one process, one step per await of main()      *)
(* SessionSpec  the toolhost: concurrent POST /mcp requests, one step per  *)
(*              await of the request handler                               *)
(* ToolSpec     the toolhost: tool calls dispatched one after the other    *)
(*              to the handlers, on one file system                        *)
(* CreateSpec   the toolhost: concurrent createFile calls, one step per    *)
(*              await of the handler                                       *)
(* LiveSpec     the driver with the fairness of its last step              *)
(***************************************************************************)
EXTENDS Integers, Sequences, FiniteSets, TLC

(***************************************************************************)
(* Bounds of the model                                                     *)
(***************************************************************************)
MaxTurns == 2
MaxBatch == 2
MaxToolExec == 2
MaxRequests == 3
MaxDiskUse == 4
MaxCreates == 2

(***************************************************************************)
(* Values                                                                  *)
(***************************************************************************)
NoVal == "undefined"

\* no reply received yet / no tool result received yet
NoReply == [content |-> NoVal, tool_calls |-> <<>>]
NoResult == [content |-> <<>>, isError |-> FALSE]

\* client.ts:45, the content substituted when the endpoint sends no message
Placeholder == "No message received."

\* client.ts:100-103, the first message of the transcript
SystemPrompt == <<"You are an AI assistant with access to MCP tools.">>

\* a tool the toolhost registers and a tool it does not (describeServer's
\* text directs the caller to 'describeTools', which no mcp.tool() registers)
RegisteredTools ==
  {"describeServer", "updateFile", "deleteFile", "readFile",
   "appendToFile", "createFile", "listFiles"}

ToolNames == {"readFile", "describeTools"}

CallIds == {NoVal, "call_1"}

\* a tool-call request of a model reply: { id?, function: { name } }
ToolCallRequests == [id : CallIds, name : ToolNames]

\* content blocks of a Tool Result
TextBlock(t) == [type |-> "text", text |-> t]
ImageBlock == [type |-> "image", text |-> NoVal]

\* the Tool Results client.callTool resolves to in this model
ToolResults ==
  { [content |-> <<TextBlock("a"), ImageBlock, TextBlock("b")>>, isError |-> FALSE],
    [content |-> <<TextBlock("err")>>, isError |-> TRUE],
    [content |-> <<ImageBlock>>, isError |-> FALSE] }

(***************************************************************************)
(* Lines typed by the user: sequences of characters                        *)
(***************************************************************************)
Lines ==
  { <<"h", "i">>,
    <<"e", "x", "i", "t">>,
    <<" ", "E", "x", "I", "T", " ">> }

IsSpace(c) == c = " "

RECURSIVE TrimLeft(_)
TrimLeft(s) ==
  IF s # <<>> /\ IsSpace(Head(s)) THEN TrimLeft(Tail(s)) ELSE s

RECURSIVE TrimRight(_)
TrimRight(s) ==
  IF s # <<>> /\ IsSpace(s[Len(s)])
    THEN TrimRight(SubSeq(s, 1, Len(s) - 1))
    ELSE s

\* client.ts:81, ans.trim()
Trim(s) == TrimRight(TrimLeft(s))

LowerChar(c) ==
  CASE c = "E" -> "e"
    [] c = "X" -> "x"
    [] c = "I" -> "i"
    [] c = "T" -> "t"
    [] c = "H" -> "h"
    [] OTHER -> c

\* a comparison that leaves the case of the input as it is
ToLowerCase_KeepsCase(s) == s

\* client.ts:112, userInput.toLowerCase()
ToLowerCase(s) == [k \in 1..Len(s) |-> LowerChar(s[k])]

ExitSentinel == <<"e", "x", "i", "t">>

(***************************************************************************)
(* State                                                                   *)
(***************************************************************************)
VARIABLES
  \* ---- driver (client.ts, main) ----
  pc,            \* the await main() is suspended at
  messages,      \* client.ts:97, the transcript
  resp,          \* client.ts:116 resp / client.ts:169 finalResponse
  toolCalls,     \* client.ts:128
  idx,           \* position of the for..of loop of client.ts:135
  toolResponse,  \* client.ts:142
  spinner,       \* client.ts:164, TRUE while the interval timer is active
  connOpen,      \* the toolhost connection of client.ts:91-93
  turns,         \* number of user messages accepted so far
  execs,         \* number of tool-call requests accepted so far
  \* ---- toolhost (server.ts) ----
  transports,    \* server.ts:15, the session table
  tInit,         \* per transport: session initialised
  tSid,          \* per transport: transport.sessionId
  tServer,       \* per transport: the McpServer connected to it
  nTransports,   \* transports constructed so far
  nServers,      \* getServer() calls so far
  nUuid,         \* identifiers minted by randomUUID so far
  reqs,          \* the POST /mcp requests
  communicated   \* session identifiers sent back in a response

driverVars ==
  <<pc, messages, resp, toolCalls, idx, toolResponse, spinner, connOpen,
    turns, execs>>

serverVars ==
  <<transports, tInit, tSid, tServer, nTransports, nServers, nUuid, reqs,
    communicated>>

\* ---- toolhost: the tools of getServer() and the files they work on ----
VARIABLES
  files,         \* the file system that fs/promises works on
  last,          \* the tool call dispatched last and what it returned
  creates        \* the createFile calls in progress, one step per await

fsVars == <<files, last, creates>>

vars == <<driverVars, serverVars, fsVars>>


(***************************************************************************)
(* Driver: helpers of main()                                               *)
(***************************************************************************)
UserMessage(text) ==
  [role |-> "user", content |-> text, tool_calls |-> <<>>, tool_call_id |-> NoVal]

\* client.ts:123 and client.ts:174
AssistantMessage(text) ==
  [role |-> "assistant", content |-> text, tool_calls |-> <<>>, tool_call_id |-> NoVal]

\* client.ts:129-133
AssistantToolCallsMessage(calls) ==
  [role |-> "assistant", content |-> "", tool_calls |-> calls, tool_call_id |-> NoVal]

\* a key that is the name of the tool whatever the request carries
CorrelationKey_AlwaysName(toolCall) == toolCall.name

\* client.ts:154, toolCall.id ?? toolCall.function.name
CorrelationKey(toolCall) ==
  IF toolCall.id # NoVal THEN toolCall.id ELSE toolCall.name

\* client.ts:147-150, the text blocks of a result concatenated in order
RECURSIVE ToolOutput(_)
ToolOutput(content) ==
  IF content = <<>> THEN ""
  ELSE (IF Head(content).type = "text" THEN Head(content).text ELSE "")
         \o ToolOutput(Tail(content))

\* a tool message that carries the text of the first block only
ToolMessage_FirstBlockOnly(toolCall, result) ==
  [role |-> "tool",
   content |-> IF result.content # <<>> /\ result.content[1].type = "text"
                 THEN result.content[1].text ELSE "",
   tool_calls |-> <<>>,
   tool_call_id |-> CorrelationKey(toolCall)]

\* client.ts:152-156
ToolMessage(toolCall, result) ==
  [role |-> "tool", content |-> ToolOutput(result.content), tool_calls |-> <<>>,
   tool_call_id |-> CorrelationKey(toolCall)]

\* client.ts:121, resp.tool_calls?.length
HasToolCalls(reply) == Len(reply.tool_calls) > 0

\* a loop that steps over the request after the one just answered
NextIndex_SkipsRequest(i, result) == i + 2

\* a loop that leaves the batch at the first error-flagged result
NextIndex_BreaksOnError(i, result) ==
  IF result.isError THEN Len(toolCalls) + 1 ELSE i + 1

\* client.ts:135, the for..of loop: the position after the call at i has been
\* answered by result (the loop has no break and does not look at isError)
NextIndex(i, result) == i + 1

\* client.ts:44-46, data?.message ?? { role: "assistant", content: placeholder }
callLLM(data) ==
  IF data.message = <<>>
    THEN [content |-> Placeholder, tool_calls |-> <<>>]
    ELSE data.message[1]

(***************************************************************************)
(* Driver: what the model endpoint and the toolhost may answer             *)
(***************************************************************************)
Batches(maxLen) ==
  UNION { [1..n -> ToolCallRequests] : n \in 1..maxLen }

Min(a, b) == IF a < b THEN a ELSE b

\* the JSON bodies of the endpoint (message is <<>> when the body has none):
\* no message, a plain answer, or a reply carrying a batch of at most maxLen
\* tool-call requests
LLMData(maxLen) ==
  { [message |-> <<>>],
    [message |-> <<[content |-> "ans", tool_calls |-> <<>>]>>] }
  \cup { [message |-> <<[content |-> "", tool_calls |-> b]>>] : b \in Batches(maxLen) }

\* the result of a call that names no registered tool, when the toolhost
\* reports it as an error-flagged Tool Result
UnknownToolResult ==
  [content |-> <<TextBlock("Tool not found")>>, isError |-> TRUE]

\* client.ts:142, the Tool Results client.callTool may resolve to
CallToolResults(toolCall) ==
  IF toolCall.name \in RegisteredTools THEN ToolResults ELSE {UnknownToolResult}

(***************************************************************************)
(* Driver: the steps of main(), one per await                              *)
(***************************************************************************)
DriverInit ==
  /\ pc = "connect"
  /\ messages = <<>>
  /\ resp = NoReply
  /\ toolCalls = <<>>
  /\ idx = 0
  /\ toolResponse = NoResult
  /\ spinner = FALSE
  /\ connOpen = FALSE
  /\ turns = 0
  /\ execs = 0

\* client.ts:91-104: connect, list the tools, push the first message
Connect ==
  /\ pc = "connect"
  /\ connOpen' = TRUE
  /\ messages' = Append(messages, UserMessage(SystemPrompt))
  /\ pc' = "llm0"
  /\ UNCHANGED <<resp, toolCalls, idx, toolResponse, spinner, turns, execs>>
  /\ UNCHANGED serverVars
  /\ UNCHANGED fsVars

\* client.ts:93/96: client.connect or getToolList rejects; main().catch logs it
ConnectFails ==
  /\ pc = "connect"
  /\ pc' = "failed"
  /\ UNCHANGED <<messages, resp, toolCalls, idx, toolResponse, spinner,
                 connOpen, turns, execs>>
  /\ UNCHANGED serverVars
  /\ UNCHANGED fsVars

\* client.ts:106: the reply to the first message is logged and dropped
StartupReply ==
  /\ pc = "llm0"
  /\ \E data \in LLMData(1) :
       resp' = callLLM(data)
  /\ pc' = "prompt"
  /\ UNCHANGED <<messages, toolCalls, idx, toolResponse, spinner, connOpen,
                 turns, execs>>
  /\ UNCHANGED serverVars
  /\ UNCHANGED fsVars

\* client.ts:111-114: a line is read; "exit" leaves the loop, anything else
\* is pushed as a user message and the model is called
PromptInput ==
  /\ pc = "prompt"
  /\ \E line \in Lines :
       LET userInput == Trim(line) IN
         IF ToLowerCase(userInput) = ExitSentinel
           THEN /\ pc' = "closing"
                /\ UNCHANGED <<messages, turns>>
           ELSE /\ turns < MaxTurns
                /\ messages' = Append(messages, UserMessage(userInput))
                /\ turns' = turns + 1
                /\ pc' = "llm1"
  /\ resp' = NoReply
  /\ toolCalls' = <<>>
  /\ idx' = 0
  /\ toolResponse' = NoResult
  /\ UNCHANGED <<spinner, connOpen, execs>>
  /\ UNCHANGED serverVars
  /\ UNCHANGED fsVars

\* client.ts:177-178
Close ==
  /\ pc = "closing"
  /\ connOpen' = FALSE
  /\ pc' = "closed"
  /\ UNCHANGED <<messages, resp, toolCalls, idx, toolResponse, spinner, turns,
                 execs>>
  /\ UNCHANGED serverVars
  /\ UNCHANGED fsVars

\* client.ts:116-133: the first reply of a turn
FirstReply ==
  /\ pc = "llm1"
  /\ \E data \in LLMData(Min(MaxBatch, MaxToolExec - execs)) :
       LET reply == callLLM(data) IN
         /\ resp' = reply
         /\ IF ~HasToolCalls(reply)
              THEN /\ messages' = Append(messages, AssistantMessage(reply.content))
                   /\ pc' = "prompt"
                   /\ UNCHANGED <<toolCalls, idx, execs>>
              ELSE /\ toolCalls' = reply.tool_calls
                   /\ messages' =
                        Append(messages, AssistantToolCallsMessage(reply.tool_calls))
                   /\ idx' = 1
                   /\ execs' = execs + Len(reply.tool_calls)
                   /\ pc' = "tools"
  /\ UNCHANGED <<toolResponse, spinner, connOpen, turns>>
  /\ UNCHANGED serverVars
  /\ UNCHANGED fsVars

\* a loop that calls the model again as soon as one call of the batch is
\* answered, while the remaining calls are still to be made
ToolReturn_CallsModelEarly ==
  /\ pc = "tools"
  /\ \E result \in CallToolResults(toolCalls[idx]) :
       /\ toolResponse' = result
       /\ messages' = Append(messages, ToolMessage(toolCalls[idx], result))
       /\ idx' = NextIndex(idx, result)
  /\ spinner' = TRUE
  /\ pc' = "llm2"
  /\ UNCHANGED <<resp, toolCalls, connOpen, turns, execs>>
  /\ UNCHANGED serverVars
  /\ UNCHANGED fsVars

\* client.ts:142-167: client.callTool resolves for the call at idx; its text is
\* pushed as a tool message; the loop issues the next call or, after the last
\* one, the spinner is started and the model is called again
ToolReturn ==
  /\ pc = "tools"
  /\ \E result \in CallToolResults(toolCalls[idx]) :
       /\ toolResponse' = result
       /\ messages' = Append(messages, ToolMessage(toolCalls[idx], result))
       /\ idx' = NextIndex(idx, result)
  /\ IF idx' > Len(toolCalls)
       THEN /\ spinner' = TRUE
            /\ pc' = "llm2"
       ELSE UNCHANGED <<pc, spinner>>
  /\ UNCHANGED <<resp, toolCalls, connOpen, turns, execs>>
  /\ UNCHANGED serverVars
  /\ UNCHANGED fsVars

\* client.ts:142: client.callTool rejects (a protocol-level error response or a
\* transport fault); nothing in the loop catches it, main() rejects and
\* main().catch (client.ts:182-184) logs it
ToolRejects ==
  /\ pc = "tools"
  /\ pc' = "failed"
  /\ UNCHANGED <<messages, resp, toolCalls, idx, toolResponse, spinner,
                 connOpen, turns, execs>>
  /\ UNCHANGED serverVars
  /\ UNCHANGED fsVars

\* a follow-up step that replaces the tool messages of the batch by the answer
FinalReply_DropsToolMessages ==
  /\ pc = "llm2"
  /\ \E data \in LLMData(1) :
       /\ resp' = callLLM(data)
       /\ messages' = Append(SubSeq(messages, 1, Len(messages) - Len(toolCalls)),
                             AssistantMessage(resp'.content))
  /\ spinner' = FALSE
  /\ pc' = "prompt"
  /\ UNCHANGED <<toolCalls, idx, toolResponse, connOpen, turns, execs>>
  /\ UNCHANGED serverVars
  /\ UNCHANGED fsVars

\* client.ts:169-174: the reply after the tool results; the timer is cleared,
\* finalResponse.content is pushed and the loop goes back to the prompt
FinalReply ==
  /\ pc = "llm2"
  /\ \E data \in LLMData(1) :
       /\ resp' = callLLM(data)
       /\ messages' = Append(messages, AssistantMessage(resp'.content))
  /\ spinner' = FALSE
  /\ pc' = "prompt"
  /\ UNCHANGED <<toolCalls, idx, toolResponse, connOpen, turns, execs>>
  /\ UNCHANGED serverVars
  /\ UNCHANGED fsVars

\* client.ts:36/42: fetch or res.json() rejects inside callLLM; main() rejects
\* and main().catch logs it
LLMRejects ==
  /\ pc \in {"llm0", "llm1", "llm2"}
  /\ pc' = "failed"
  /\ UNCHANGED <<messages, resp, toolCalls, idx, toolResponse, spinner,
                 connOpen, turns, execs>>
  /\ UNCHANGED serverVars
  /\ UNCHANGED fsVars

Next ==
  \/ Connect
  \/ ConnectFails
  \/ StartupReply
  \/ PromptInput
  \/ Close
  \/ FirstReply
  \/ ToolReturn
  \/ ToolRejects
  \/ FinalReply
  \/ LLMRejects


(***************************************************************************)
(* Toolhost: values                                                        *)
(***************************************************************************)
\* the request carries no mcp-session-id header (or an empty one)
NoHeader == -1

\* an identifier that randomUUID never returned
BogusId == 0

NoTransport == 0
NoServer == 0

Requests == 1..MaxRequests

\* every request constructs at most one transport, one McpServer, one id
TransportIds == 1..MaxRequests
SessionKeys == 0..MaxRequests

\* the JSON-RPC method of the request body: initialize, or anything else
Kinds == {"initialize", "call"}

IdleRequest ==
  [pc |-> "idle", header |-> NoHeader, kind |-> "call",
   transport |-> NoTransport, created |-> FALSE, status |-> "none"]

(***************************************************************************)
(* Toolhost: helpers of app.post("/mcp")                                   *)
(***************************************************************************)
\* server.ts:491, sessionId && transports[sessionId]
Known(table, sessionId) ==
  sessionId # NoHeader /\ table[sessionId] # NoTransport

\* one McpServer shared by every transport
getServer_Shared(n) == 1

\* server.ts:20-25/473, getServer(): a new McpServer on every call
getServer(n) == n + 1

\* a generator that returns an identifier it returned before
randomUUID_Repeats(n) == 1

\* server.ts:498, sessionIdGenerator: () => randomUUID(), a value never
\* returned before
randomUUID(n) == n + 1

\* a callback that does not record the transport
onsessioninitialized_Forgets(table, sid, transport) == table

\* a callback that replaces the table by the one new entry
onsessioninitialized_Replaces(table, sid, transport) ==
  [k \in DOMAIN table |-> IF k = sid THEN transport ELSE NoTransport]

\* server.ts:499-502, onsessioninitialized: transports[sid] = transport
onsessioninitialized(table, sid, transport) ==
  [table EXCEPT ![sid] = transport]

(***************************************************************************)
(* Toolhost: the steps of a request                                        *)
(***************************************************************************)
ServerInit ==
  /\ transports = [k \in SessionKeys |-> NoTransport]
  /\ tInit = [t \in TransportIds |-> FALSE]
  /\ tSid = [t \in TransportIds |-> BogusId]
  /\ tServer = [t \in TransportIds |-> NoServer]
  /\ nTransports = 0
  /\ nServers = 0
  /\ nUuid = 0
  /\ reqs = [r \in Requests |-> IdleRequest]
  /\ communicated = {}

\* a transport that starts a session, and is recorded, for whatever request
\* it is handed first
handleRequest_RecordsAnyRequest(r, t, header, kind, base) ==
  IF tInit[t]
    THEN /\ reqs' = [base EXCEPT ![r].status =
                        IF kind # "initialize" /\ header = tSid[t]
                          THEN "ok" ELSE "error"]
         /\ UNCHANGED <<transports, tInit, tSid, nUuid>>
    ELSE LET sid == randomUUID(nUuid) IN
           /\ nUuid' = sid
           /\ tSid' = [tSid EXCEPT ![t] = sid]
           /\ tInit' = [tInit EXCEPT ![t] = TRUE]
           /\ transports' = onsessioninitialized(transports, sid, t)
           /\ reqs' = [base EXCEPT ![r].status = "ok"]

\* server.ts:509, transport.handleRequest(req, res, req.body), up to the point
\* where the transport has validated the request; base is the request table
\* with r's own fields set.  An initialize request on a transport that has no
\* session mints the identifier and calls onsessioninitialized; on a transport
\* that has one it is refused.  Any other request is refused unless the
\* transport has a session and the header names it.
handleRequest(r, t, header, kind, base) ==
  IF kind = "initialize"
    THEN IF tInit[t]
           THEN /\ reqs' = [base EXCEPT ![r].status = "error"]
                /\ UNCHANGED <<transports, tInit, tSid, nUuid>>
           ELSE LET sid == randomUUID(nUuid) IN
                  /\ nUuid' = sid
                  /\ tSid' = [tSid EXCEPT ![t] = sid]
                  /\ tInit' = [tInit EXCEPT ![t] = TRUE]
                  /\ transports' = onsessioninitialized(transports, sid, t)
                  /\ reqs' = [base EXCEPT ![r].status = "ok"]
    ELSE /\ reqs' =
              [base EXCEPT ![r].status =
                 IF tInit[t] /\ header = tSid[t] THEN "ok" ELSE "error"]
         /\ UNCHANGED <<transports, tInit, tSid, nUuid>>

\* the headers a caller can send: none, an identifier no session has, or an
\* identifier some response carried
Headers == {NoHeader, BogusId} \cup communicated

\* a handler without the reuse branch: a request naming a recorded session
\* gets a new McpServer and a new transport all the same
ArriveKnown_CreatesTransport(r) ==
  /\ reqs[r].pc = "idle"
  /\ nTransports < MaxRequests
  /\ \E header \in Headers, kind \in Kinds :
       /\ header # NoHeader
       /\ transports[header] # NoTransport
       /\ LET t == nTransports + 1 IN
            /\ nServers' = nServers + 1
            /\ nTransports' = t
            /\ tServer' = [tServer EXCEPT ![t] = nServers + 1]
            /\ reqs' = [reqs EXCEPT ![r] =
                          [pc |-> "connecting", header |-> header,
                           kind |-> kind, transport |-> t,
                           created |-> TRUE, status |-> "none"]]
  /\ UNCHANGED <<transports, tInit, tSid, nUuid, communicated>>
  /\ UNCHANGED driverVars
  /\ UNCHANGED fsVars

\* server.ts:486-493 and 509: a request whose header names a recorded session
\* is handed to that session's transport
ArriveKnown(r) ==
  /\ reqs[r].pc = "idle"
  /\ \E header \in Headers, kind \in Kinds :
       /\ Known(transports, header)
       /\ LET t == transports[header] IN
            handleRequest(r, t, header, kind,
              [reqs EXCEPT ![r] = [pc |-> "responding", header |-> header,
                                   kind |-> kind, transport |-> t,
                                   created |-> FALSE, status |-> "none"]])
  /\ UNCHANGED <<tServer, nTransports, nServers, communicated>>
  /\ UNCHANGED driverVars
  /\ UNCHANGED fsVars

\* server.ts:486-506: any other request gets a new McpServer and a new
\* transport, and waits for mcp.connect(transport)
ArriveUnknown(r) ==
  /\ reqs[r].pc = "idle"
  /\ \E header \in Headers, kind \in Kinds :
       /\ ~Known(transports, header)
       /\ LET mcp == getServer(nServers)
              t == nTransports + 1
          IN /\ nServers' = mcp
             /\ nTransports' = t
             /\ tServer' = [tServer EXCEPT ![t] = mcp]
             /\ reqs' = [reqs EXCEPT ![r] =
                           [pc |-> "connecting", header |-> header,
                            kind |-> kind, transport |-> t,
                            created |-> TRUE, status |-> "none"]]
  /\ UNCHANGED <<transports, tInit, tSid, nUuid, communicated>>
  /\ UNCHANGED driverVars
  /\ UNCHANGED fsVars

\* server.ts:506-509: mcp.connect resolved; the request is handed to the new
\* transport
Connected(r) ==
  /\ reqs[r].pc = "connecting"
  /\ handleRequest(r, reqs[r].transport, reqs[r].header, reqs[r].kind,
       [reqs EXCEPT ![r].pc = "responding"])
  /\ UNCHANGED <<tServer, nTransports, nServers, communicated>>
  /\ UNCHANGED driverVars
  /\ UNCHANGED fsVars

\* server.ts:509: handleRequest resolves, the response has been written; the
\* response of a transport that has a session carries its identifier
Respond(r) ==
  /\ reqs[r].pc = "responding"
  /\ reqs' = [reqs EXCEPT ![r].pc = "done"]
  /\ communicated' =
       IF reqs[r].status = "ok"
         THEN communicated \cup {tSid[reqs[r].transport]}
         ELSE communicated
  /\ UNCHANGED <<transports, tInit, tSid, tServer, nTransports, nServers, nUuid>>
  /\ UNCHANGED driverVars
  /\ UNCHANGED fsVars

SessionNext ==
  \E r \in Requests :
    \/ ArriveKnown(r)
    \/ ArriveUnknown(r)
    \/ Connected(r)
    \/ Respond(r)

(***************************************************************************)
(* Tools: paths and contents are sequences of characters                   *)
(***************************************************************************)
Slash == "/"

PathA == <<"a">>
PathD == <<"d">>
PathDA == <<"d", "/", "a">>
PathXA == <<"x", "/", "a">>
PathX == <<"x">>
PathEmpty == <<>>
PathBlank == <<" ">>
Dot == <<".">>

\* the defaults of the input schemas: process.cwd() (server.ts:341, 430) and
\* the files temp.cpp, example.txt, new.txt in it (server.ts:82, 230, 286)
Cwd == Dot
PathTemp == <<"temp.cpp">>
PathExample == <<"example.txt">>
PathNew == <<"new.txt">>

\* server.ts:290, the default of appendToFile's content
DefaultAppend == <<"Appended content from the MCP tool.">>

\* the path arguments of the tool calls
Paths == {PathA, PathD, PathXA, PathEmpty, PathBlank}

\* the content arguments of the tool calls
Contents == { <<" ">>, <<"x">> }

\* String.prototype.split("/")
RECURSIVE Split(_)
Split(s) ==
  IF \A k \in 1..Len(s) : s[k] # Slash
    THEN <<s>>
    ELSE LET k == CHOOSE j \in 1..Len(s) :
                    s[j] = Slash /\ \A m \in 1..(j - 1) : s[m] # Slash
         IN <<SubSeq(s, 1, k - 1)>> \o Split(SubSeq(s, k + 1, Len(s)))

\* Array.prototype.slice(0, -1)
SliceButLast(parts) ==
  IF parts = <<>> THEN <<>> ELSE SubSeq(parts, 1, Len(parts) - 1)

\* Array.prototype.join("/")
RECURSIVE Join(_)
Join(parts) ==
  IF parts = <<>> THEN <<>>
  ELSE IF Len(parts) = 1 THEN parts[1]
  ELSE parts[1] \o <<Slash>> \o Join(Tail(parts))

\* server.ts:376, path.split("/").slice(0, -1).join("/") || "."
ParentDir(path) ==
  LET joined == Join(SliceButLast(Split(path))) IN
    IF joined = <<>> THEN Dot ELSE joined

\* server.ts:87, !path || typeof path !== "string" || path.trim() === ""
\* (arg.hasPath is FALSE when the handler gets no path at all)
BlankPath(arg) == ~arg.hasPath \/ arg.path = <<>> \/ Trim(arg.path) = <<>>

\* server.ts:433, typeof path !== "string"
NotAString(arg) == ~arg.hasPath

\* server.ts:355-358, content when it is a string that is not blank, else the
\* default content
DefaultContent == <<"Default file content generated by the MCP tool.">>

FinalContent(arg) ==
  IF arg.hasContent /\ Trim(arg.content) # <<>> THEN arg.content ELSE DefaultContent

(***************************************************************************)
(* Tools: the file system behind fs/promises                               *)
(***************************************************************************)
Absent == [type |-> "absent", data |-> <<>>]
Directory == [type |-> "dir", data |-> <<>>]
File(data) == [type |-> "file", data |-> data]

\* the paths that can name a file or a directory
FsNodes ==
  {Dot, PathA, PathD, PathDA, PathX, PathXA, PathTemp, PathExample, PathNew}

Node(f, p) == IF p \in DOMAIN f THEN f[p] ELSE Absent

\* the directory that holds p, as the operating system resolves it
Dirname(p) ==
  IF \A k \in 1..Len(p) : p[k] # Slash
    THEN Dot
    ELSE LET k == CHOOSE j \in 1..Len(p) :
                    p[j] = Slash /\ \A m \in (j + 1)..Len(p) : p[m] # Slash
         IN SubSeq(p, 1, k - 1)

\* the characters held by the files of nodes
RECURSIVE DiskUse(_, _)
DiskUse(f, nodes) ==
  IF nodes = {} THEN 0
  ELSE LET p == CHOOSE q \in nodes : TRUE
       IN Len(f[p].data) + DiskUse(f, nodes \ {p})

\* the result of a primitive: ok, or the code of the error it rejects with
Done(f, value) == [ok |-> TRUE, code |-> "", files |-> f, value |-> value]
Fails(f, code) == [ok |-> FALSE, code |-> code, files |-> f, value |-> <<>>]

\* fs.access(p): resolves when p exists
access(f, p) ==
  IF Node(f, p).type = "absent" THEN Fails(f, "ENOENT") ELSE Done(f, <<>>)

\* fs.stat(p): value is <<"dir">> for a directory
stat(f, p) ==
  IF Node(f, p).type = "absent" THEN Fails(f, "ENOENT")
  ELSE Done(f, <<Node(f, p).type>>)

\* the fault of a write that fails after the file has been opened
WriteFault == "ENOSPC"

\* fs.writeFile(p, data): opens p with flag 'w', which creates or truncates
\* the file, then writes data.  fault is the error the device raises, "" when
\* there is none: WriteFault is raised by the write, when the file is already
\* created or truncated; any other fault is raised by the open
writeFile(f, p, data, fault) ==
  IF p \notin DOMAIN f THEN Fails(f, "ENOENT")
  ELSE IF Node(f, Dirname(p)).type = "absent" THEN Fails(f, "ENOENT")
  ELSE IF Node(f, Dirname(p)).type = "file" THEN Fails(f, "ENOTDIR")
  ELSE IF f[p].type = "dir" THEN Fails(f, "EISDIR")
  ELSE IF fault = WriteFault THEN Fails([f EXCEPT ![p] = File(<<>>)], fault)
  ELSE IF fault # "" THEN Fails(f, fault)
  ELSE Done([f EXCEPT ![p] = File(data)], <<>>)

\* fs.appendFile(p, data): opens p with flag 'a', which creates the file when
\* it is absent, then writes data at its end; the faults are as for writeFile
appendFile(f, p, data, fault) ==
  IF p \notin DOMAIN f THEN Fails(f, "ENOENT")
  ELSE IF Node(f, Dirname(p)).type = "absent" THEN Fails(f, "ENOENT")
  ELSE IF Node(f, Dirname(p)).type = "file" THEN Fails(f, "ENOTDIR")
  ELSE IF f[p].type = "dir" THEN Fails(f, "EISDIR")
  ELSE IF fault = WriteFault THEN Fails([f EXCEPT ![p] = File(f[p].data)], fault)
  ELSE IF fault # "" THEN Fails(f, fault)
  ELSE Done([f EXCEPT ![p] = File(f[p].data \o data)], <<>>)

\* fs.readFile(p, "utf-8")
readFileSync(f, p, fault) ==
  IF Node(f, p).type = "absent" THEN Fails(f, "ENOENT")
  ELSE IF Node(f, p).type = "dir" THEN Fails(f, "EISDIR")
  ELSE IF fault # "" THEN Fails(f, fault)
  ELSE Done(f, f[p].data)

\* fs.unlink(p)
unlink(f, p, fault) ==
  IF Node(f, p).type = "absent" THEN Fails(f, "ENOENT")
  ELSE IF Node(f, p).type = "dir" THEN Fails(f, "EISDIR")
  ELSE IF fault # "" THEN Fails(f, fault)
  ELSE Done([f EXCEPT ![p] = Absent], <<>>)

\* the entries of a directory in the order readdir returns them, joined by
\* files.join(", ") of server.ts:455
RECURSIVE JoinNames(_, _)
JoinNames(f, candidates) ==
  IF candidates = <<>> THEN <<>>
  ELSE LET p == Head(candidates)
           name == SubSeq(p, Len(p), Len(p))
           rest == JoinNames(f, Tail(candidates))
       IN IF Node(f, p).type = "absent" THEN rest
          ELSE IF rest = <<>> THEN name
          ELSE name \o <<",", " ">> \o rest

\* the paths that a directory can hold
EntriesOf(p) ==
  IF p = Dot THEN <<PathA, PathD, PathNew, PathX>>
  ELSE IF p = PathD THEN <<PathDA>>
  ELSE IF p = PathX THEN <<PathXA>>
  ELSE <<>>

\* fs.readdir(p)
readdir(f, p, fault) ==
  IF Node(f, p).type = "absent" THEN Fails(f, "ENOENT")
  ELSE IF Node(f, p).type = "file" THEN Fails(f, "ENOTDIR")
  ELSE IF fault # "" THEN Fails(f, fault)
  ELSE Done(f, JoinNames(f, EntriesOf(p)))

(***************************************************************************)
(* Tools: the handlers registered by getServer()                           *)
(*                                                                         *)
(* A handler gets the file system f, its validated arguments arg           *)
(* ([hasPath, path, hasContent, content]) and the fault that the device    *)
(* raises in its read or write ("" for none); it gives the file system it  *)
(* leaves, the Tool Result it returns and the fs calls it made.            *)
(***************************************************************************)
Ok(text) == [content |-> <<TextBlock(text)>>, isError |-> FALSE]
Err(text) == [content |-> <<TextBlock(text)>>, isError |-> TRUE]

Return(f, result, ops) ==
  [files |-> f, result |-> result, ops |-> ops, thrown |-> FALSE]

\* a handler that lets the rejection of an fs call escape
Throw(f, ops) ==
  [files |-> f, result |-> NoResult, ops |-> ops, thrown |-> TRUE]

ErrMessage_Generic(code) == <<"error">>

\* err.message of a rejected fs call: it names the code of the error
ErrMessage(code) == <<code>>

InvalidPathText == <<"'path' must be a non-empty string.">>

NotFoundText(path) == <<"File not found at ">> \o path \o <<".">>

\* server.ts:26-69
describeServer(f, arg, fault) ==
  Return(f, Ok(<<"MCP Filesystem Toolhost Server">>), <<>>)

updateFile_NoExistenceCheck(f, arg, fault) ==
  IF BlankPath(arg) THEN Return(f, Err(InvalidPathText), <<>>)
  ELSE LET w == writeFile(f, arg.path, arg.content, fault) IN
    IF w.ok
      THEN Return(w.files, Ok(<<"File successfully updated at ">> \o arg.path \o <<".">>),
                  <<"writeFile">>)
      ELSE Return(w.files, Err(<<"Failed to update file: ">> \o ErrMessage(w.code)),
                  <<"writeFile">>)

\* server.ts:85-134
updateFile(f, arg, fault) ==
  IF BlankPath(arg) THEN Return(f, Err(InvalidPathText), <<>>)
  ELSE IF ~access(f, arg.path).ok
    THEN Return(f, Err(<<"File not found at ">> \o arg.path
                         \o <<". Cannot update non-existent file.">>),
                <<"access">>)
  ELSE LET w == writeFile(f, arg.path, arg.content, fault) IN
    IF w.ok
      THEN Return(w.files, Ok(<<"File successfully updated at ">> \o arg.path \o <<".">>),
                  <<"access", "writeFile">>)
      ELSE Return(w.files, Err(<<"Failed to update file: ">> \o ErrMessage(w.code)),
                  <<"access", "writeFile">>)

deleteFile_NoDirectoryCheck(f, arg, fault) ==
  IF BlankPath(arg) THEN Return(f, Err(InvalidPathText), <<>>)
  ELSE IF ~stat(f, arg.path).ok
    THEN Return(f, Err(NotFoundText(arg.path)), <<"stat">>)
  ELSE LET u == unlink(f, arg.path, fault) IN
    IF u.ok
      THEN Return(u.files, Ok(<<"File successfully deleted: ">> \o arg.path),
                  <<"stat", "unlink">>)
      ELSE Return(f, Err(<<"Failed to delete file: ">> \o ErrMessage(u.code)),
                  <<"stat", "unlink">>)

\* server.ts:151-215
deleteFile(f, arg, fault) ==
  IF BlankPath(arg) THEN Return(f, Err(InvalidPathText), <<>>)
  ELSE LET st == stat(f, arg.path) IN
    IF ~st.ok
      THEN Return(f, Err(NotFoundText(arg.path)), <<"stat">>)
    ELSE IF st.value = <<"dir">>
      THEN Return(f, Err(<<"'">> \o arg.path
                           \o <<"' is a directory. Use a directory-specific tool to delete folders.">>),
                  <<"stat">>)
    ELSE LET u == unlink(f, arg.path, fault) IN
      IF u.ok
        THEN Return(u.files, Ok(<<"File successfully deleted: ">> \o arg.path),
                    <<"stat", "unlink">>)
      ELSE IF u.code = "ENOENT"
        THEN Return(f, Err(NotFoundText(arg.path)), <<"stat", "unlink">>)
      ELSE Return(f, Err(<<"Failed to delete file: ">> \o ErrMessage(u.code)),
                  <<"stat", "unlink">>)

readFile_Uncaught(f, arg, fault) ==
  IF BlankPath(arg) THEN Return(f, Err(InvalidPathText), <<>>)
  ELSE LET r == readFileSync(f, arg.path, fault) IN
    IF r.ok
      THEN Return(f, Ok(<<"Content of ">> \o arg.path \o <<":\n\n[fence] is \n">>
                          \o r.value \o <<"\n[fence]">>),
                  <<"readFile">>)
      ELSE Throw(f, <<"readFile">>)

\* server.ts:232-271 ([fence] stands for the three backquotes of a code fence)
readFile(f, arg, fault) ==
  IF BlankPath(arg) THEN Return(f, Err(InvalidPathText), <<>>)
  ELSE LET r == readFileSync(f, arg.path, fault) IN
    IF r.ok
      THEN Return(f, Ok(<<"Content of ">> \o arg.path \o <<":\n\n[fence] is \n">>
                          \o r.value \o <<"\n[fence]">>),
                  <<"readFile">>)
    ELSE IF r.code = "ENOENT"
      THEN Return(f, Err(NotFoundText(arg.path)), <<"readFile">>)
    ELSE Return(f, Err(<<"Error reading file: ">> \o ErrMessage(r.code)),
                <<"readFile">>)

\* server.ts:291-324
appendToFile(f, arg, fault) ==
  IF BlankPath(arg) THEN Return(f, Err(InvalidPathText), <<>>)
  ELSE LET a == appendFile(f, arg.path, arg.content \o <<"\n">>, fault) IN
    IF a.ok
      THEN Return(a.files,
                  Ok(<<"Content appended to ">> \o arg.path \o <<" (">>
                       \o <<ToString(Len(arg.content))>> \o <<" characters).">>),
                  <<"appendFile">>)
      ELSE Return(a.files, Err(<<"Failed to append to file: ">> \o ErrMessage(a.code)),
                  <<"appendFile">>)

createFile_Overwrites(f, arg, fault) ==
  IF BlankPath(arg) THEN Return(f, Err(InvalidPathText), <<>>)
  ELSE LET w == writeFile(f, arg.path, FinalContent(arg), fault) IN
    IF w.ok
      THEN Return(w.files, Ok(<<"File created at ">> \o arg.path), <<"writeFile">>)
      ELSE Return(w.files, Err(<<"Unexpected error while creating file: ">>
                               \o ErrMessage(w.code)),
                  <<"writeFile">>)

createFile_MakesParent(f, arg, fault) ==
  IF BlankPath(arg) THEN Return(f, Err(InvalidPathText), <<>>)
  ELSE IF access(f, arg.path).ok
    THEN Return(f, Err(<<"A file already exists at ">> \o arg.path
                         \o <<". File creation aborted to prevent overwrite.">>),
                <<"access">>)
  ELSE IF arg.path \notin DOMAIN f
    THEN Return(f, Err(<<"Unexpected error while creating file: ENOENT">>),
                <<"access", "mkdir", "writeFile">>)
  ELSE Return([f EXCEPT ![ParentDir(arg.path)] = Directory,
                        ![arg.path] = File(FinalContent(arg))],
              Ok(<<"File created at ">> \o arg.path),
              <<"access", "mkdir", "writeFile">>)

\* server.ts:343-413
createFile(f, arg, fault) ==
  IF BlankPath(arg) THEN Return(f, Err(InvalidPathText), <<>>)
  ELSE IF access(f, arg.path).ok
    THEN Return(f, Err(<<"A file already exists at ">> \o arg.path
                         \o <<". File creation aborted to prevent overwrite.">>),
                <<"access">>)
  ELSE IF ~access(f, ParentDir(arg.path)).ok
    THEN Return(f, Err(<<"Parent directory \"">> \o ParentDir(arg.path)
                         \o <<"\" does not exist.">>),
                <<"access", "access">>)
  ELSE LET w == writeFile(f, arg.path, FinalContent(arg), fault) IN
    IF w.ok
      THEN Return(w.files,
                  Ok(<<"File created at ">> \o arg.path \o <<" with ">>
                       \o <<ToString(Len(FinalContent(arg)))>> \o <<" characters.">>),
                  <<"access", "access", "writeFile">>)
      ELSE Return(w.files, Err(<<"Unexpected error while creating file: ">>
                               \o ErrMessage(w.code)),
                  <<"access", "access", "writeFile">>)

\* server.ts:431-470
listFiles(f, arg, fault) ==
  IF NotAString(arg)
    THEN Return(f, Err(<<"Invalid 'path' argument. Must be a string. Received: ">>
                         \o <<"{}">>),
                <<>>)
  ELSE LET d == readdir(f, arg.path, fault) IN
    IF d.ok
      THEN Return(f, Ok(<<"Files in ">> \o arg.path \o <<": ">> \o d.value),
                  <<"readdir">>)
      ELSE Return(f, Err(<<"Error reading directory: ">> \o ErrMessage(d.code)),
                  <<"readdir">>)

(***************************************************************************)
(* Tools: dispatch of a tools/call request                                 *)
(***************************************************************************)
\* the names a caller may send: the registered tools and 'describeTools'
CallNames == RegisteredTools \cup {"describeTools"}

NoArg == [hasPath |-> FALSE, path |-> <<>>, hasContent |-> FALSE, content |-> <<>>]

WithPath(p) == [NoArg EXCEPT !.hasPath = TRUE, !.path = p]

WithContent(arg, c) == [arg EXCEPT !.hasContent = TRUE, !.content = c]

\* the arguments a caller may send with a call of name
RawArgs(name) ==
  LET paths == {NoArg} \cup {WithPath(p) : p \in Paths} IN
    IF name \in {"updateFile", "appendToFile", "createFile"}
      THEN paths \cup {WithContent(a, c) : a \in paths, c \in Contents}
    ELSE IF name \in {"deleteFile", "readFile", "listFiles"} THEN paths
    ELSE {NoArg}

\* the faults the device may raise in the read or write of a call of name
Faults(name) ==
  IF name \in {"updateFile", "appendToFile", "createFile"}
    THEN {"", "EIO", WriteFault}
  ELSE IF name \in {"deleteFile", "readFile", "listFiles"} THEN {"", "EIO"}
  ELSE {""}

\* the default of the path parameter of a tool (<<>> when it has none):
\* server.ts:82, 230, 286, 341, 430
DefaultPath(name) ==
  CASE name = "updateFile" -> <<PathTemp>>
    [] name = "readFile" -> <<PathExample>>
    [] name = "appendToFile" -> <<PathNew>>
    [] name = "createFile" -> <<Cwd>>
    [] name = "listFiles" -> <<Cwd>>
    [] OTHER -> <<>>

\* the input schemas of server.ts:78-84, 144-150, 225-231, 281-291, 334-342,
\* 423-430 applied to the arguments of a call: a missing parameter gets its
\* default; a missing parameter that has none and is not optional is a
\* validation failure
Validate(name, raw) ==
  LET withPath ==
        IF raw.hasPath \/ DefaultPath(name) = <<>> THEN raw
        ELSE [raw EXCEPT !.hasPath = TRUE, !.path = DefaultPath(name)[1]]
      arg ==
        IF name = "appendToFile" /\ ~raw.hasContent
          THEN WithContent(withPath, DefaultAppend)
          ELSE withPath
      ok ==
        /\ name = "deleteFile" => raw.hasPath
        /\ name = "updateFile" => raw.hasContent
  IN [ok |-> ok, arg |-> arg]

\* the handler registered under name
Handler(name, f, arg, fault) ==
  CASE name = "describeServer" -> describeServer(f, arg, fault)
    [] name = "updateFile" -> updateFile(f, arg, fault)
    [] name = "deleteFile" -> deleteFile(f, arg, fault)
    [] name = "readFile" -> readFile(f, arg, fault)
    [] name = "appendToFile" -> appendToFile(f, arg, fault)
    [] name = "createFile" -> createFile(f, arg, fault)
    [] name = "listFiles" -> listFiles(f, arg, fault)

NoCall ==
  [tool |-> "", raw |-> NoArg, arg |-> NoArg, fault |-> "",
   outcome |-> "none", handler |-> "", thrown |-> FALSE,
   result |-> NoResult, ops |-> <<>>]

ToolInit ==
  /\ files = [p \in FsNodes |->
                IF p \in {Dot, PathD} THEN Directory
                ELSE IF p = PathDA THEN File(<<"x">>)
                ELSE Absent]
  /\ last = NoCall

\* a tools/call request that names a registered tool and passes its input
\* schema: the handler runs and its Tool Result is the response; what a
\* handler throws is turned into an error-flagged Tool Result
CallRegistered ==
  /\ \E name \in RegisteredTools :
       \E raw \in RawArgs(name), fault \in Faults(name) :
         \E v \in {Validate(name, raw)} :
         \E h \in {IF v.ok THEN Handler(name, files, v.arg, fault)
                           ELSE Return(files, NoResult, <<>>)} :
            /\ v.ok
            /\ DiskUse(h.files, FsNodes) <= MaxDiskUse
            /\ files' = h.files
            /\ last' = [tool |-> name, raw |-> raw, arg |-> v.arg,
                        fault |-> fault, outcome |-> "result",
                        handler |-> name, thrown |-> h.thrown,
                        result |-> IF h.thrown
                                     THEN Err(<<"thrown">>)
                                     ELSE h.result,
                        ops |-> h.ops]
  /\ UNCHANGED creates
  /\ UNCHANGED driverVars
  /\ UNCHANGED serverVars

\* a tools/call request whose arguments fail the input schema of the tool:
\* no handler runs; the request is answered by a JSON-RPC error or, in later
\* releases of the SDK, by an error-flagged Tool Result
CallInvalid ==
  /\ \E name \in RegisteredTools :
       \E raw \in RawArgs(name), protocol \in BOOLEAN :
         /\ ~Validate(name, raw).ok
         /\ last' = [tool |-> name, raw |-> raw, arg |-> raw, fault |-> "",
                     outcome |-> IF protocol THEN "protocolError" ELSE "result",
                     handler |-> "", thrown |-> FALSE,
                     result |-> IF protocol THEN NoResult
                                ELSE Err(<<"Invalid arguments for tool">>),
                     ops |-> <<>>]
  /\ UNCHANGED <<files, creates>>
  /\ UNCHANGED driverVars
  /\ UNCHANGED serverVars

\* a tools/call request that names no registered tool (getServer() registers
\* no fallback): no handler runs; the request is answered by a JSON-RPC error
\* or, in later releases of the SDK, by an error-flagged Tool Result
CallUnknown ==
  /\ \E name \in CallNames \ RegisteredTools, protocol \in BOOLEAN :
       last' = [tool |-> name, raw |-> NoArg, arg |-> NoArg, fault |-> "",
                outcome |-> IF protocol THEN "protocolError" ELSE "result",
                handler |-> "", thrown |-> FALSE,
                result |-> IF protocol THEN NoResult
                           ELSE Err(<<"Tool not found">>),
                ops |-> <<>>]
  /\ UNCHANGED <<files, creates>>
  /\ UNCHANGED driverVars
  /\ UNCHANGED serverVars

ToolNext ==
  \/ CallRegistered
  \/ CallInvalid
  \/ CallUnknown

(***************************************************************************)
(* Tools: concurrent createFile calls, one step per await of the handler   *)
(* (server.ts:343-413); the calls may come from any sessions, they share   *)
(* the file system                                                         *)
(***************************************************************************)
Creates == 1..MaxCreates

\* the arguments of the concurrent createFile calls
CreateArgs ==
  {WithContent(WithPath(p), c) : p \in {PathA, PathXA}, c \in Contents}

IdleCreate == [pc |-> "idle", arg |-> NoArg, result |-> NoResult]

CreateInit == creates = [c \in Creates |-> IdleCreate]

\* server.ts:343-363: the call arrives; the handler runs up to the await of
\* fs.access(path)
CreateArrive(c) ==
  /\ creates[c].pc = "idle"
  /\ \E arg \in CreateArgs :
       creates' = [creates EXCEPT ![c] =
                     IF BlankPath(arg)
                       THEN [pc |-> "done", arg |-> arg,
                             result |-> Err(InvalidPathText)]
                       ELSE [pc |-> "access", arg |-> arg, result |-> NoResult]]
  /\ UNCHANGED <<files, last>>
  /\ UNCHANGED driverVars
  /\ UNCHANGED serverVars

\* server.ts:363-378: fs.access(path) settles; when it resolves the handler
\* returns the 'already exists' result, else it goes on to the await of
\* fs.access(parentDir)
CreateAccessed(c) ==
  /\ creates[c].pc = "access"
  /\ creates' = [creates EXCEPT ![c] =
       IF access(files, creates[c].arg.path).ok
         THEN [@ EXCEPT !.pc = "done",
                        !.result = Err(<<"A file already exists at ">>
                                         \o creates[c].arg.path
                                         \o <<". File creation aborted to prevent overwrite.">>)]
         ELSE [@ EXCEPT !.pc = "accessParent"]]
  /\ UNCHANGED <<files, last>>
  /\ UNCHANGED driverVars
  /\ UNCHANGED serverVars

\* server.ts:378-391: fs.access(parentDir) settles; when it rejects the
\* handler returns the 'parent directory' result, else it goes on to the
\* await of fs.writeFile
CreateParentChecked(c) ==
  /\ creates[c].pc = "accessParent"
  /\ creates' = [creates EXCEPT ![c] =
       IF ~access(files, ParentDir(creates[c].arg.path)).ok
         THEN [@ EXCEPT !.pc = "done",
                        !.result = Err(<<"Parent directory \"">>
                                         \o ParentDir(creates[c].arg.path)
                                         \o <<"\" does not exist.">>)]
         ELSE [@ EXCEPT !.pc = "write"]]
  /\ UNCHANGED <<files, last>>
  /\ UNCHANGED driverVars
  /\ UNCHANGED serverVars

\* server.ts:391-412: fs.writeFile(path, finalContent) settles and the handler
\* returns
CreateWritten(c) ==
  /\ creates[c].pc = "write"
  /\ \E fault \in Faults("createFile") :
     \E w \in {writeFile(files, creates[c].arg.path,
                          FinalContent(creates[c].arg), fault)} :
       /\ files' = w.files
       /\ creates' = [creates EXCEPT ![c] =
            [@ EXCEPT !.pc = "done",
                      !.result =
                        IF w.ok
                          THEN Ok(<<"File created at ">> \o creates[c].arg.path
                                    \o <<" with ">>
                                    \o <<ToString(Len(FinalContent(creates[c].arg)))>>
                                    \o <<" characters.">>)
                          ELSE Err(<<"Unexpected error while creating file: ">>
                                     \o ErrMessage(w.code))]]
  /\ UNCHANGED last
  /\ UNCHANGED driverVars
  /\ UNCHANGED serverVars

CreateNext ==
  \E c \in Creates :
    \/ CreateArrive(c)
    \/ CreateAccessed(c)
    \/ CreateParentChecked(c)
    \/ CreateWritten(c)

\* the tools that the text of describeServer lists (server.ts:39-44) and the
\* tool it tells the caller to use (server.ts:49, 62)
DescribedTools ==
  {"createFile", "updateFile", "readFile", "appendToFile", "deleteFile",
   "listFiles", "describeTools"}

(***************************************************************************)
(* Specifications                                                          *)
(***************************************************************************)
Init == DriverInit /\ ServerInit /\ ToolInit /\ CreateInit

Spec == Init /\ [][Next]_vars

SessionSpec == Init /\ [][SessionNext]_vars

ToolSpec == Init /\ [][ToolNext]_vars

CreateSpec == Init /\ [][CreateNext]_vars

\* the driver with its scheduling: once the loop is left nothing but the await
\* of transport.close() (client.ts:177) is pending, and it is run
LiveSpec == Init /\ [][Next]_vars /\ WF_vars(Close)


(***************************************************************************)
(* Claims about the driver loop (checked under Spec)                       *)
(***************************************************************************)

\* C1: after a tool batch the model is queried again, and the driver goes back
\* to the prompt only on a reply that carries no tool-call requests; a reply
\* carrying requests would have them executed instead.
C1_ReturnsOnlyOnPlainAnswer ==
  [][(pc = "llm2" /\ pc' = "prompt") => ~HasToolCalls(resp')]_vars

C3_ErrorResultDoesNotShortCircuit ==
  [][(pc = "tools" /\ pc' # "failed" /\ toolResponse'.isError) =>
       /\ Len(messages') = Len(messages) + 1
       /\ SubSeq(messages', 1, Len(messages)) = messages
       /\ messages'[Len(messages')] = ToolMessage(toolCalls[idx], toolResponse')
       /\ idx' = idx + 1
       /\ (idx < Len(toolCalls) => pc' = "tools")
       /\ (idx = Len(toolCalls) => pc' = "llm2")]_vars

C3_Witness ==
  /\ pc = "llm2"
  /\ Len(toolCalls) = 2
  /\ toolCalls[1].name \in RegisteredTools
  /\ messages[Len(messages) - 1].role = "tool"
  /\ messages[Len(messages) - 1].content = "err"
  /\ messages[Len(messages)].role = "tool"
  /\ messages[Len(messages)].content = "ab"

\* C4: a request naming an unrecognized tool inside a batch of several
\* requests does not prevent the other requests of the batch from being
\* executed and answered: the driver never gives up a batch at such a request
\* while later requests of the batch are unanswered.
C4_UnknownToolDoesNotBlockBatch ==
  ~ /\ pc = "failed"
    /\ idx >= 1
    /\ idx < Len(toolCalls)
    /\ toolCalls[idx].name \notin RegisteredTools

(***************************************************************************)
(* Claims about the session table (checked under SessionSpec)              *)
(***************************************************************************)
Recorded == {k \in SessionKeys : transports[k] # NoTransport}

\* C5: a request whose header names a recorded session is handed to the
\* transport recorded for it; neither its arrival nor its completion creates
\* a transport or a registry or changes the session table.
C5_KnownSessionReusesTransport ==
  [][\A r \in Requests :
       /\ ( /\ reqs[r].pc = "idle"
            /\ reqs'[r].pc # "idle"
            /\ reqs'[r].header # NoHeader
            /\ transports[reqs'[r].header] # NoTransport )
          => /\ reqs'[r].transport = transports[reqs'[r].header]
             /\ transports' = transports
             /\ nTransports' = nTransports
             /\ nServers' = nServers
             /\ tServer' = tServer
       /\ ( /\ reqs[r].pc = "responding"
            /\ reqs'[r].pc = "done"
            /\ ~reqs[r].created )
          => /\ transports' = transports
             /\ nTransports' = nTransports
             /\ nServers' = nServers]_vars

C5_Witness ==
  \E r \in Requests :
    /\ reqs[r].pc = "done"
    /\ ~reqs[r].created
    /\ reqs[r].kind = "call"
    /\ reqs[r].status = "ok"
    /\ nTransports = 1

\* C6: a request whose header is absent or names no recorded session gets a
\* new session and is served through it; it never ends in an error.
C6_UnknownSessionNeverAnError ==
  \A r \in Requests :
    (reqs[r].pc \in {"responding", "done"} /\ reqs[r].created)
      => reqs[r].status = "ok"

\* C7: every identifier that a response has carried is recorded in the session
\* table under the transport that minted it, and every transport in the table
\* has reported its session initialised.
C7_CommunicatedIdIsRecorded ==
  /\ \A s \in communicated :
       /\ transports[s] # NoTransport
       /\ tSid[transports[s]] = s
  /\ \A k \in Recorded : tInit[transports[k]]

C7_Witness ==
  /\ Cardinality(communicated) >= 2
  /\ \E r \in Requests :
       /\ reqs[r].pc = "responding"
       /\ reqs[r].header \in communicated

\* C8: whatever the interleaving of requests, every transport that initialised
\* a session is the one recorded under its identifier: two transports never
\* have the same identifier and no session's entry is overwritten or lost.
C8_OneTransportPerIdentifier ==
  \A t1 \in TransportIds :
    tInit[t1] =>
      /\ transports[tSid[t1]] = t1
      /\ \A t2 \in TransportIds :
           (tInit[t2] /\ t2 # t1) => tSid[t2] # tSid[t1]

C8_Witness ==
  \E r1, r2 \in Requests :
    /\ r1 # r2
    /\ reqs[r1].created /\ reqs[r2].created
    /\ reqs[r1].pc = "responding" /\ reqs[r2].pc = "responding"
    /\ reqs[r1].status = "ok" /\ reqs[r2].status = "ok"

\* C9: the session table only grows: an entry, once recorded, is never removed
\* and never bound to another transport.
C9_TableOnlyGrows ==
  [][\A k \in SessionKeys :
       transports[k] # NoTransport => transports'[k] = transports[k]]_vars

C9_Witness ==
  /\ Cardinality(Recorded) >= 2
  /\ \A r \in Requests : reqs[r].pc = "done"

\* C10: every transport is connected to a registry instance created for it, and
\* no registry instance is connected to the transports of two sessions.
C10_OneRegistryPerSession ==
  /\ \A t \in 1..nTransports : tServer[t] # NoServer
  /\ \A k1, k2 \in Recorded :
       k1 # k2 => tServer[transports[k1]] # tServer[transports[k2]]

C10_Witness ==
  \E k1, k2 \in Recorded :
    /\ k1 # k2
    /\ tServer[transports[k1]] # NoServer
    /\ tServer[transports[k2]] # NoServer
    /\ nServers > Cardinality(Recorded)

(***************************************************************************)
(* Claims about the tools (checked under ToolSpec)                         *)
(***************************************************************************)
FsTools == RegisteredTools \ {"describeServer"}

\* the fs calls that read or write, where the device can fail
IoCalls == {"writeFile", "appendFile", "readFile", "unlink", "readdir"}

\* C11: a tool call that names a tool that is not registered is answered by an
\* error-flagged Tool Result, not by a protocol-level fault, and no handler is
\* invoked for it.
C11_UnknownToolIsAnErrorResult ==
  (last.outcome # "none" /\ last.tool \notin RegisteredTools) =>
    /\ last.outcome = "result"
    /\ last.result.isError
    /\ last.handler = ""
    /\ last.ops = <<>>

\* what a call of last' that reports success has done to the file system
Effect(c, before, after) ==
  LET p == c.arg.path IN
    CASE c.tool = "createFile" ->
           /\ Node(before, p).type = "absent"
           /\ Node(after, p).type = "file"
      [] c.tool = "updateFile" ->
           /\ Node(before, p).type = "file"
           /\ Node(after, p) = File(c.arg.content)
      [] c.tool = "appendToFile" ->
           Node(after, p) = File(Node(before, p).data \o c.arg.content \o <<"\n">>)
      [] c.tool = "deleteFile" ->
           /\ Node(before, p).type = "file"
           /\ Node(after, p).type = "absent"
      [] c.tool = "readFile" ->
           /\ Node(before, p).type = "file"
           /\ after = before
      [] c.tool = "listFiles" ->
           /\ Node(before, p).type = "dir"
           /\ after = before

\* C12: every call that reaches a filesystem handler is answered by a Tool
\* Result (text blocks and a flag) and the handler does not throw, whatever the
\* arguments, the file system and the fault of the device; when the read or
\* write of the handler fails the result is error-flagged, and a result
\* without the flag means the operation was done.
C12_HandlersReturnFlaggedResults ==
  [][last'.handler \in FsTools =>
       /\ ~last'.thrown
       /\ last'.outcome = "result"
       /\ last'.result.isError \in BOOLEAN
       /\ Len(last'.result.content) >= 1
       /\ \A i \in 1..Len(last'.result.content) :
            last'.result.content[i].type = "text"
       /\ (last'.fault # "" /\ last'.ops # <<>>
             /\ last'.ops[Len(last'.ops)] \in IoCalls) => last'.result.isError
       /\ ~last'.result.isError => Effect(last', files, files')]_vars

C12_Witness ==
  /\ last.handler = "updateFile"
  /\ last.fault = "EIO"
  /\ last.ops = <<"access", "writeFile">>
  /\ last.result.isError
  /\ files[PathA].type = "file"

\* the first and the last piece of the text of a Tool Result
FirstText(result) == result.content[1].text[1]
LastText(result) ==
  result.content[1].text[Len(result.content[1].text)]

\* C13: createFile on a path where a file exists returns an error-flagged
\* result that says a file already exists there, and leaves the file system,
\* so the content of that file, as it was, whatever content the call supplies.
C13_CreateRefusesExistingFile ==
  [][(last'.handler = "createFile"
        /\ Node(files, last'.arg.path).type = "file") =>
       /\ last'.result.isError
       /\ FirstText(last'.result) = "A file already exists at "
       /\ files' = files]_vars

C13_Witness ==
  /\ last.handler = "createFile"
  /\ last.arg.path = PathA
  /\ last.raw.hasContent
  /\ Trim(last.raw.content) # <<>>
  /\ files[PathA].type = "file"
  /\ files[PathA].data # last.raw.content
  /\ last.ops = <<"access">>
  /\ last.result.isError

\* C14: updateFile on a path where nothing exists returns an error-flagged
\* result and leaves the file system as it was; a call of updateFile that
\* changes the file system changes only the content of a file that existed.
C14_UpdateOnlyExistingFile ==
  [][last'.handler = "updateFile" =>
       /\ Node(files, last'.arg.path).type = "absent" =>
            (last'.result.isError /\ files' = files)
       /\ files' # files =>
            /\ Node(files, last'.arg.path).type = "file"
            /\ Node(files', last'.arg.path).type = "file"
            /\ \A q \in FsNodes \ {last'.arg.path} : files'[q] = files[q]
       /\ ~last'.result.isError =>
            files' = [files EXCEPT ![last'.arg.path] = File(last'.arg.content)]]_vars

C14_Witness ==
  /\ last.handler = "updateFile"
  /\ last.arg.path = PathA
  /\ files[PathA].type = "absent"
  /\ last.ops = <<"access">>
  /\ last.result.isError

\* C15: deleteFile on a path that is a directory returns an error-flagged
\* result that says the path is a directory, and the directory and what it
\* holds remain.
C15_DeleteRefusesDirectory ==
  [][(last'.handler = "deleteFile"
        /\ Node(files, last'.arg.path).type = "dir") =>
       /\ last'.result.isError
       /\ LastText(last'.result) =
            "' is a directory. Use a directory-specific tool to delete folders."
       /\ files' = files]_vars

C15_Witness ==
  /\ last.handler = "deleteFile"
  /\ last.arg.path = PathD
  /\ last.ops = <<"stat">>
  /\ last.result.isError
  /\ files[PathD].type = "dir"
  /\ files[PathDA].type = "file"

\* C16: createFile on a path whose parent directory does not exist returns an
\* error-flagged result and creates neither the file nor the directory.
C16_CreateRefusesMissingParent ==
  [][(last'.handler = "createFile"
        /\ ~BlankPath(last'.arg)
        /\ Node(files, ParentDir(last'.arg.path)).type = "absent") =>
       /\ last'.result.isError
       /\ files' = files
       /\ Node(files', last'.arg.path).type = "absent"
       /\ Node(files', ParentDir(last'.arg.path)).type = "absent"]_vars

C16_Witness ==
  /\ last.handler = "createFile"
  /\ last.arg.path = PathXA
  /\ last.ops = <<"access", "access">>
  /\ last.result.isError
  /\ files[PathX].type = "absent"
  /\ files[PathXA].type = "absent"

\* the file content that the text of a successful readFile carries between
\* the fixed pieces of its template
ReadBack(result, path) ==
  SubSeq(result.content[1].text, Len(path) + 3, Len(result.content[1].text) - 1)

\* C17: when createFile has created a file from the content c of its call and
\* the next call reads that path, with nothing in between, the content read
\* back is exactly c.
C17_CreateThenReadRoundTrip ==
  [][( /\ last.handler = "createFile"
       /\ ~last.result.isError
       /\ last.raw.hasContent
       /\ last'.handler = "readFile"
       /\ last'.arg.path = last.arg.path
       /\ last'.fault = "" ) =>
       /\ ~last'.result.isError
       /\ ReadBack(last'.result, last'.arg.path) = last.raw.content]_vars

\* C18: a filesystem handler that gets no path or a blank path (empty or only
\* white space) returns an error-flagged result and makes no fs call.
C18_BlankPathIsRefusedWithoutFsCall ==
  (last.handler \in FsTools
     /\ (~last.arg.hasPath \/ Trim(last.arg.path) = <<>>)) =>
    /\ last.result.isError
    /\ last.ops = <<>>

\* a Tool Result that reports that the target does not exist
ReportsNotFound(result) ==
  /\ result.isError
  /\ \/ FirstText(result) = "File not found at "
     \/ LastText(result) = "ENOENT"

C20_EndpointFaultEndsOnlyTheTurn ==
  [][(pc \in {"llm1", "llm2"} /\ pc' # pc) => pc' \in {"tools", "llm2", "prompt"}]_vars

\* the lines of Lines that spell the exit sentinel in some case, with or
\* without white space around it
ExitLines == { <<"e", "x", "i", "t">>, <<" ", "E", "x", "I", "T", " ">> }

\* C21: a line that is "exit" after trimming, in any case, ends the loop: it is
\* not appended to the transcript, no model call and no tool call follows, and
\* the connection to the toolhost is closed; every other line starts a turn by
\* appending exactly one user message, the trimmed line.
C21_ExitEndsTheLoop ==
  /\ [][ /\ (pc = "prompt" /\ pc' # pc) =>
              \E line \in Lines :
                IF line \in ExitLines
                  THEN /\ pc' = "closing"
                       /\ messages' = messages
                  ELSE /\ pc' = "llm1"
                       /\ messages' = Append(messages, UserMessage(Trim(line)))
         /\ pc \in {"closing", "closed"} =>
              /\ pc' \in {"closing", "closed"}
              /\ messages' = messages
              /\ execs' = execs
              /\ turns' = turns
         /\ pc' = "closed" => ~connOpen' ]_vars
  /\ (pc = "closing") ~> (pc = "closed" /\ ~connOpen)

C21_Witness ==
  /\ pc = "closed"
  /\ ~connOpen
  /\ turns >= 1
  /\ messages[Len(messages)].role = "assistant"

\* C22: the driver has one operation outstanding at a time. While a tool call
\* is awaited it is the call at idx and no model call is pending; while a model
\* call is awaited every request of the batch before it has been answered; the
\* prompt is shown only when no batch is unfinished and no reply is awaited.
C22_OneOutstandingOperation ==
  /\ pc = "tools" =>
       /\ idx \in 1..Len(toolCalls)
       /\ ~spinner
       /\ messages[Len(messages) - (idx - 1)].tool_calls = toolCalls
  /\ pc \in {"llm0", "llm1"} => toolCalls = <<>>
  /\ pc = "llm2" =>
       /\ idx = Len(toolCalls) + 1
       /\ messages[Len(messages)].role = "tool"
  /\ pc = "prompt" =>
       /\ toolCalls = <<>> \/ idx = Len(toolCalls) + 1
       /\ Len(messages) = 1 \/ messages[Len(messages)].role = "assistant"
       /\ ~spinner

C22_Witness ==
  /\ pc = "tools"
  /\ Len(toolCalls) = 2
  /\ idx = 2
  /\ messages[Len(messages)].role = "tool"

\* C23: the tool message appended for the request at idx carries as
\* tool_call_id the id of that request or, when the request has no id, the
\* name of its tool.
C23_CorrelationKeyIsIdOrName ==
  [][(pc = "tools" /\ Len(messages') = Len(messages) + 1) =>
       LET request == toolCalls[idx]
           message == messages'[Len(messages')]
       IN /\ message.role = "tool"
          /\ request.id # NoVal => message.tool_call_id = request.id
          /\ request.id = NoVal => message.tool_call_id = request.name]_vars

C23_Witness ==
  /\ pc = "llm2"
  /\ Len(toolCalls) = 2
  /\ toolCalls[1].id = NoVal
  /\ toolCalls[2].id = "call_1"
  /\ messages[Len(messages) - 1].tool_call_id = toolCalls[1].name
  /\ messages[Len(messages)].tool_call_id = "call_1"

TextsOf(content) ==
  LET texts == SelectSeq(content, LAMBDA block : block.type = "text")
  IN [k \in 1..Len(texts) |-> texts[k].text]

\* C25: the content of the tool message appended for a Tool Result is the
\* texts of its text blocks concatenated in order; a block of another type
\* adds nothing and a result without a text block gives the empty string.
C25_ToolTextIsConcatenation ==
  [][(pc = "tools" /\ Len(messages') = Len(messages) + 1) =>
       LET texts == TextsOf(toolResponse'.content)
           content == messages'[Len(messages')].content
       IN /\ Len(texts) = 0 => content = ""
          /\ Len(texts) = 1 => content = texts[1]
          /\ Len(texts) = 2 => content = texts[1] \o texts[2]
          /\ Len(texts) <= 2]_vars

C25_Witness ==
  /\ pc = "llm2"
  /\ Len(toolCalls) = 2
  /\ Len(toolResponse.content) = 1
  /\ toolResponse.content[1].type = "image"
  /\ messages[Len(messages)].content = ""
  /\ messages[Len(messages) - 1].content = "ab"

\* C26: the transcript is append-only: every step leaves the messages that
\* were there, in their places and unchanged, and at most adds one at the end.
C26_TranscriptIsAppendOnly ==
  [][/\ Len(messages') >= Len(messages)
     /\ Len(messages') <= Len(messages) + 1
     /\ SubSeq(messages', 1, Len(messages)) = messages]_vars

C26_Witness ==
  /\ pc = "prompt"
  /\ turns = 2
  /\ Len(messages) >= 6
  /\ \E k \in 1..Len(messages) : messages[k].role = "tool"

\* C27: two requests that carry the same session identifier are never both
\* inside handleRequest of that session's transport at the same time.
C27_OneRequestPerSessionAtATime ==
  \A r1, r2 \in Requests :
    ( /\ r1 # r2
      /\ reqs[r1].pc = "responding"
      /\ reqs[r2].pc = "responding"
      /\ reqs[r1].header # NoHeader
      /\ reqs[r1].header = reqs[r2].header
      /\ Known(transports, reqs[r1].header) )
    => reqs[r1].transport # reqs[r2].transport

\* C28: appendToFile on a path where no file exists creates no file; on a
\* file that exists the new content is the old content followed by the
\* appended text.
C28_AppendOnlyToExistingFile ==
  [][last'.handler = "appendToFile" =>
       /\ Node(files, last'.arg.path).type = "absent" => files' = files
       /\ (Node(files, last'.arg.path).type = "file" /\ ~last'.result.isError) =>
            files' = [files EXCEPT ![last'.arg.path] =
                        File(files[last'.arg.path].data \o last'.arg.content
                               \o <<"\n">>)]]_vars

\* C29: of two concurrent createFile calls that name the same path, on which
\* nothing existed, at most one returns success, and the file then holds the
\* content of that call: no createFile overwrites what another one wrote.
C29_OneCreateWins ==
  \A c1, c2 \in Creates :
    ( /\ c1 # c2
      /\ creates[c1].pc = "done"
      /\ creates[c2].pc = "done"
      /\ creates[c1].arg.path = creates[c2].arg.path
      /\ ~creates[c1].result.isError )
    => /\ creates[c2].result.isError
       /\ files[creates[c1].arg.path] = File(FinalContent(creates[c1].arg))

\* C30: the interval timer started before the follow-up model call is active
\* only while that call is pending: it is cleared on every path by which the
\* call ends, a rejection included.
C30_SpinnerStopsWithTheCall ==
  spinner => pc = "llm2"

\* C31: the session table changes only when a transport initialises its
\* session: the arrival of a request, and the handling of a request that is
\* not an initialize request, leave the table as it was; an entry that
\* appears is the transport of an initialize request handled in that step,
\* under the identifier that transport minted; and every transport in the
\* table has initialised its session.
C31_TableChangesOnlyByInitialisation ==
  [][ /\ \A r \in Requests :
           (reqs'[r] # reqs[r] /\ reqs'[r].kind # "initialize")
             => transports' = transports
      /\ \A r \in Requests :
           (reqs[r].pc = "idle" /\ reqs'[r].pc = "connecting")
             => transports' = transports
      /\ \A k \in SessionKeys :
           transports'[k] # transports[k] =>
             LET t == transports'[k] IN
               /\ t # NoTransport
               /\ transports[k] = NoTransport
               /\ ~tInit[t]
               /\ tInit'[t]
               /\ tSid'[t] = k
               /\ \E r \in Requests :
                    /\ reqs'[r].transport = t
                    /\ reqs'[r].kind = "initialize"
                    /\ reqs[r].pc # "responding"
                    /\ reqs'[r].pc = "responding"
      /\ \A k \in SessionKeys :
           transports'[k] # NoTransport => tInit'[transports'[k]] ]_vars

C31_Witness ==
  \E r1, r2 \in Requests :
    /\ reqs[r1].created
    /\ reqs[r1].kind = "call"
    /\ reqs[r1].header = BogusId
    /\ reqs[r1].pc = "done"
    /\ reqs[r1].status = "error"
    /\ reqs[r2].created
    /\ reqs[r2].kind = "initialize"
    /\ reqs[r2].status = "ok"
    /\ nTransports = 2
    /\ Cardinality(Recorded) = 1

\* C32: every reply received from the model endpoint is appended to the
\* transcript in the step that receives it, as an assistant message carrying
\* its tool-call requests when it has some and its text otherwise, so that
\* the transcript of the next model call contains it.
C32_EveryReplyIsRecorded ==
  [][(pc \in {"llm0", "llm1", "llm2"} /\ pc' \notin {pc, "failed"}) =>
       /\ Len(messages') = Len(messages) + 1
       /\ messages'[Len(messages')].role = "assistant"
       /\ HasToolCalls(resp') =>
            messages'[Len(messages')].tool_calls = resp'.tool_calls
       /\ ~HasToolCalls(resp') =>
            messages'[Len(messages')].content = resp'.content]_vars

\* the tools that change the file system
MutatingTools == {"createFile", "updateFile", "appendToFile", "deleteFile"}

\* C33: a call of createFile, updateFile, appendToFile or deleteFile that
\* returns an error-flagged result leaves the file system as it was, and a
\* call of readFile or listFiles leaves it as it was whatever it returns.
C33_ErrorsLeaveFilesUnchanged ==
  [][/\ (last'.handler \in MutatingTools /\ last'.result.isError)
          => files' = files
     /\ last'.handler \in {"readFile", "listFiles"} => files' = files]_vars

====
